---- MODULE Spec2Model ----
(***************************************************************************)
(* A model of src/src/BasicMainConnection.ts: the adapter that puts the    *)
(* ladc connection contract (prepare, exec, all, cursor, script) on top of *)
(* a pg Client.                                                            *)
(*                                                                         *)
(* Representation of JavaScript values:                                    *)
(*   - a string is a TLA+ string; Undefined stands for the value undefined *)
(*     wherever a string or a scalar may be missing;                       *)
(*   - SqlParameters | undefined is a record [kind, len, elems, props]:    *)
(*     kind is "undefined", "array" or "named"; an array has a length and  *)
(*     a function elems from the indexes that are present (0-based) to     *)
(*     values, so that an index below the length and outside the domain    *)
(*     is a hole of a sparse array; props maps the other property names    *)
(*     to values (all the properties of a named mapping);                  *)
(*   - a row is a function from column names to values;                    *)
(*   - `rows?: any[]` is [defined, list].                                  *)
(***************************************************************************)
EXTENDS Integers, Sequences, FiniteSets, TLC

Undefined == "undefined"

\* JavaScript truthiness of a string-or-undefined value.
Truthy(v) == v # Undefined /\ v # ""

Max(a, b) == IF a >= b THEN a ELSE b

(***************************************************************************)
(* Strings: characters, \s, toLowerCase, toUpperCase.                      *)
(***************************************************************************)
Char(s, i) == IF i >= 1 /\ i <= Len(s) THEN SubSeq(s, i, i) ELSE ""

IsSpace(c) == c \in {" ", "\t", "\n", "\r"}

UpperLetters == "ABCDEFGHIJKLMNOPQRSTUVWXYZ"
LowerLetters == "abcdefghijklmnopqrstuvwxyz"

LowerChar(c) ==
  IF \E i \in 1..26 : Char(UpperLetters, i) = c
  THEN Char(LowerLetters, CHOOSE i \in 1..26 : Char(UpperLetters, i) = c)
  ELSE c

UpperChar(c) ==
  IF \E i \in 1..26 : Char(LowerLetters, i) = c
  THEN Char(UpperLetters, CHOOSE i \in 1..26 : Char(LowerLetters, i) = c)
  ELSE c

RECURSIVE toLowerCase(_)
toLowerCase(s) ==
  IF Len(s) = 0 THEN "" ELSE LowerChar(Char(s, 1)) \o toLowerCase(SubSeq(s, 2, Len(s)))

RECURSIVE toUpperCase(_)
toUpperCase(s) ==
  IF Len(s) = 0 THEN "" ELSE UpperChar(Char(s, 1)) \o toUpperCase(SubSeq(s, 2, Len(s)))

(***************************************************************************)
(* insertRegexp:                                                           *)
(*  /^\s*insert\s+into\s+([^\s\(]+)\s*(?:\([^)]+\))?\s*values\s*           *)
(*    \([\s\S]*\)\s*$/i                                                    *)
(* matched as the regular expression engine matches it: every quantifier   *)
(* is greedy, and group 1 gives back characters only when the rest of the  *)
(* pattern cannot match otherwise.                                         *)
(***************************************************************************)
\* The first index >= i of s that holds no white space (Len(s)+1 if none).
RECURSIVE SkipSpaces(_, _)
SkipSpaces(s, i) ==
  IF i <= Len(s) /\ IsSpace(Char(s, i)) THEN SkipSpaces(s, i + 1) ELSE i

\* The first index >= i of s that holds white space or "(" (Len(s)+1 if none):
\* the end of the longest run of [^\s\(].
RECURSIVE TableRunEnd(_, _)
TableRunEnd(s, i) ==
  IF i <= Len(s) /\ ~IsSpace(Char(s, i)) /\ Char(s, i) # "("
  THEN TableRunEnd(s, i + 1) ELSE i

\* The first index >= i of s that holds ")" (Len(s)+1 if none).
RECURSIVE FindCloseParen(_, _)
FindCloseParen(s, i) ==
  IF i <= Len(s) /\ Char(s, i) # ")" THEN FindCloseParen(s, i + 1) ELSE i

\* The last index of s that holds no white space (0 if none).
RECURSIVE LastNonSpace(_, _)
LastNonSpace(s, i) ==
  IF i >= 1 /\ IsSpace(Char(s, i)) THEN LastNonSpace(s, i - 1) ELSE i

\* Does the keyword kw (lower case) stand at index i of s, in any case?
KeywordAt(s, i, kw) ==
  /\ i + Len(kw) - 1 <= Len(s)
  /\ toLowerCase(SubSeq(s, i, i + Len(kw) - 1)) = kw

\* Mutant: the pattern without its final \s*$.
MatchValuesTailUnanchored(s, i) ==
  LET v == SkipSpaces(s, i)
      o == SkipSpaces(s, v + 6)
  IN  /\ KeywordAt(s, v, "values")
      /\ Char(s, o) = "("
      /\ FindCloseParen(s, o + 1) <= Len(s)

\* \s*values\s*\([\s\S]*\)\s*$ from index i.
MatchValuesTail(s, i) ==
  LET v == SkipSpaces(s, i)
      o == SkipSpaces(s, v + 6)
  IN  /\ KeywordAt(s, v, "values")
      /\ Char(s, o) = "("
      /\ LastNonSpace(s, Len(s)) > o
      /\ Char(s, LastNonSpace(s, Len(s))) = ")"

\* \s*(?:\([^)]+\))?\s*values\s*\([\s\S]*\)\s*$ from index i.
MatchAfterTable(s, i) ==
  LET p == SkipSpaces(s, i)
      c == FindCloseParen(s, p + 1)
  IN  \/ /\ Char(s, p) = "("
         /\ c <= Len(s)
         /\ c > p + 1
         /\ MatchValuesTail(s, c + 1)
      \/ MatchValuesTail(s, i)

\* The index where group 1 starts, or 0 when the head of the pattern,
\* ^\s*insert\s+into\s+, does not match.
TableStart(s) ==
  LET a == SkipSpaces(s, 1)
      b == SkipSpaces(s, a + 6)
      c == SkipSpaces(s, b + 4)
  IN  IF /\ KeywordAt(s, a, "insert")
         /\ IsSpace(Char(s, a + 6))
         /\ KeywordAt(s, b, "into")
         /\ IsSpace(Char(s, b + 4))
      THEN c ELSE 0

\* The ends (exclusive) group 1 may take, the whole pattern matching.
TableEnds(s) ==
  LET t == TableStart(s)
  IN  IF t = 0 THEN {}
      ELSE {e \in (t + 1)..TableRunEnd(s, t) : MatchAfterTable(s, e)}

\* insertRegexp.exec(sql): [matched, table], table being matches[1].
insertRegexpExec(sql) ==
  LET ends == TableEnds(sql)
      e    == CHOOSE x \in ends : \A y \in ends : y <= x
  IN  IF ends = {} THEN [matched |-> FALSE, table |-> Undefined]
      ELSE [matched |-> TRUE, table |-> SubSeq(sql, TableStart(sql), e - 1)]

\* The statements of the model.
SqlInsertUsers   == "insert into users values ($1)"
SqlInsertPosts   == "INSERT INTO Posts (title)\n VALUES ($1)"
SqlSelect        == "select * from users where id = $1"
SqlInsertSelect  == "insert into users select $1"
SqlReturning     == "insert into users values ($1) returning id"
SqlInsertLogs    == "Insert Into logs(line) Values ($1)"

SqlTexts ==
  {SqlInsertUsers, SqlInsertPosts, SqlSelect, SqlInsertSelect, SqlReturning, SqlInsertLogs}

\* The regular expression applied to each statement of the model (a table,
\* so that the match is computed once for each statement).
insertRegexp == [sql \in SqlTexts |-> insertRegexpExec(sql)]

(***************************************************************************)
(* LadcPgOptions and addReturningToInsert.                                 *)
(***************************************************************************)
\* options.autoincMapping && options.autoincMapping[insertTable]
\* (autoincMapping is [defined, map]: the option may be left out).
autoincLookup(options, insertTable) ==
  IF options.autoincMapping.defined /\ insertTable \in DOMAIN options.autoincMapping.map
  THEN options.autoincMapping.map[insertTable]
  ELSE Undefined

\* Mutant: useReturningAll looked at before the mapping.
addReturningAllFirst(sql, options) ==
  LET matches      == insertRegexp[sql]
      insertTable  == matches.table
      idColumnName == autoincLookup(options, insertTable)
  IN  IF ~matches.matched
      THEN [sql |-> sql, insertTable |-> Undefined, idColumnName |-> Undefined]
      ELSE [sql |-> IF options.useReturningAll THEN sql \o " returning *"
                    ELSE IF Truthy(idColumnName) THEN sql \o " returning " \o idColumnName
                    ELSE sql,
            insertTable |-> insertTable,
            idColumnName |-> idColumnName]

\* Mutant: the table recorded only when a returning clause is appended.
addReturningForgetsTable(sql, options) ==
  LET matches      == insertRegexp[sql]
      insertTable  == matches.table
      idColumnName == autoincLookup(options, insertTable)
  IN  IF ~matches.matched \/ (~Truthy(idColumnName) /\ ~options.useReturningAll)
      THEN [sql |-> sql, insertTable |-> Undefined, idColumnName |-> Undefined]
      ELSE [sql |-> IF Truthy(idColumnName) THEN sql \o " returning " \o idColumnName
                    ELSE sql \o " returning *",
            insertTable |-> insertTable,
            idColumnName |-> idColumnName]

addReturningToInsert(sql, options) ==
  LET matches      == insertRegexp[sql]
      insertTable  == matches.table
      idColumnName == autoincLookup(options, insertTable)
  IN  IF ~matches.matched
      THEN [sql |-> sql, insertTable |-> Undefined, idColumnName |-> Undefined]
      ELSE [sql |-> IF Truthy(idColumnName) THEN sql \o " returning " \o idColumnName
                    ELSE IF options.useReturningAll THEN sql \o " returning *"
                    ELSE sql,
            insertTable |-> insertTable,
            idColumnName |-> idColumnName]

(***************************************************************************)
(* SqlParameters: arrays (possibly sparse) and named mappings.             *)
(***************************************************************************)
NoElems == [i \in {} |-> Undefined]

UndefinedParams == [kind |-> "undefined", len |-> 0, elems |-> NoElems, props |-> NoElems]

\* The array literal [seq[1], ..., seq[n]].
ArrayOf(seq) ==
  [kind |-> "array", len |-> Len(seq),
   elems |-> [i \in 0..(Len(seq) - 1) |-> seq[i + 1]], props |-> NoElems]

\* The object literal with the properties of the function f.
NamedOf(f) == [kind |-> "named", len |-> 0, elems |-> NoElems, props |-> f]

IsArray(p) == p.kind = "array"

\* f with f[k] set to v, k added to the domain when it is not in it.
SetAt(f, k, v) == [x \in DOMAIN f \cup {k} |-> IF x = k THEN v ELSE f[x]]

\* arr[index] = val on an array: the length grows to hold the index.
ArraySet(arr, index, val) ==
  [arr EXCEPT !.elems = SetAt(arr.elems, index, val),
              !.len = Max(arr.len, index + 1)]

\* obj[name] = val, name no array index.
PropSet(obj, name, val) == [obj EXCEPT !.props = SetAt(obj.props, name, val)]

\* [...arr]: the holes of a sparse array become undefined, its other
\* properties are not copied.
Spread(arr) ==
  [kind |-> "array", len |-> arr.len,
   elems |-> [i \in 0..(arr.len - 1) |->
                IF i \in DOMAIN arr.elems THEN arr.elems[i] ELSE Undefined],
   props |-> NoElems]

\* p2.forEach((val, index) => result[index] = val): forEach visits the
\* indexes that are present, in increasing order, and skips the holes.
RECURSIVE ForEachAssign(_, _, _)
ForEachAssign(result, p2, index) ==
  IF index >= p2.len THEN result
  ELSE ForEachAssign(
         IF index \in DOMAIN p2.elems THEN ArraySet(result, index, p2.elems[index])
         ELSE result,
         p2, index + 1)

\* { ...params1, ...params2 }
ObjectSpread(params1, params2) ==
  NamedOf([k \in DOMAIN params1.props \cup DOMAIN params2.props |->
             IF k \in DOMAIN params2.props THEN params2.props[k] ELSE params1.props[k]])

\* Mutant: the base written over the override.
mergeParamsBaseWins(params1, params2) ==
  IF params1.kind = "undefined" THEN [error |-> "none", value |-> params2]
  ELSE IF params2.kind = "undefined" THEN [error |-> "none", value |-> params1]
  ELSE IF IsArray(params1) # IsArray(params2)
       THEN [error |-> "StyleMismatch", value |-> UndefinedParams]
  ELSE IF IsArray(params1)
       THEN [error |-> "none", value |-> ForEachAssign(Spread(params2), params1, 0)]
  ELSE [error |-> "none", value |-> ObjectSpread(params2, params1)]

\* mergeParams: [error, value]; error is "none" when it returns.
mergeParams(params1, params2) ==
  IF params1.kind = "undefined" THEN [error |-> "none", value |-> params2]
  ELSE IF params2.kind = "undefined" THEN [error |-> "none", value |-> params1]
  ELSE IF IsArray(params1) # IsArray(params2)
       THEN [error |-> "StyleMismatch", value |-> UndefinedParams]
  ELSE IF IsArray(params1)
       THEN [error |-> "none", value |-> ForEachAssign(Spread(params1), params2, 0)]
  ELSE [error |-> "none", value |-> ObjectSpread(params1, params2)]

\* Mutant: a named mapping handed on.
toPositionalParametersLax(params) == [error |-> "none", value |-> params]

\* toPositionalParameters: [error, value].
toPositionalParameters(params) ==
  IF params.kind = "undefined" \/ IsArray(params)
  THEN [error |-> "none", value |-> params]
  ELSE [error |-> "NotImplemented", value |-> UndefinedParams]

(***************************************************************************)
(* QueryResult, toRows, toBasicExecResult and its getInsertedId.           *)
(***************************************************************************)
toRows(result) == result.rows

\* The BasicExecResult: affectedRows, and what getInsertedId closes over.
toBasicExecResult(result, insertTable, optIdCol) ==
  [affectedRows |-> result.rowCount, rows |-> result.rows,
   insertTable |-> insertTable, optIdCol |-> optIdCol]

hasOwnProperty(row, name) == name \in DOMAIN row

\* Mutant: the composed names probed before "id".
probeInsertTableComposedFirst(row, insertTable) ==
  LET composed == toLowerCase(insertTable) \o "_id"
  IN  IF hasOwnProperty(row, composed) THEN composed
      ELSE IF hasOwnProperty(row, toUpperCase(composed)) THEN toUpperCase(composed)
      ELSE IF hasOwnProperty(row, "id") THEN "id"
      ELSE Undefined

\* The column the probes on the insert table find, Undefined if none.
probeInsertTable(row, insertTable) ==
  LET composed == toLowerCase(insertTable) \o "_id"
  IN  IF hasOwnProperty(row, "id") THEN "id"
      ELSE IF hasOwnProperty(row, composed) THEN composed
      ELSE IF hasOwnProperty(row, toUpperCase(composed)) THEN toUpperCase(composed)
      ELSE Undefined

\* Mutant: only the empty result refused.
noRowAtAll(rows) == Len(rows) = 0

\* result.rows.length !== 1
notOneRow(rows) == Len(rows) # 1

Failure(error, detail) == [error |-> error, detail |-> detail, value |-> Undefined]

\* execResult.getInsertedId(idColumnName): [error, detail, value]. detail is
\* what the message of the Error names: the hint at a returning clause, the
\* number of rows, or the column asked for.
getInsertedId(execResult, idColumnName) ==
  LET rows        == execResult.rows
      row         == rows[1]
      optIdCol    == execResult.optIdCol
      insertTable == execResult.insertTable
      col == IF Truthy(insertTable) THEN probeInsertTable(row, insertTable) ELSE Undefined
  IN  IF notOneRow(rows)
      THEN IF Len(rows) = 0
           THEN Failure("AmbiguousOrMissingRow", "append returning")
           ELSE Failure("AmbiguousOrMissingRow", ToString(Len(rows)))
      ELSE IF Truthy(idColumnName)
      THEN IF ~hasOwnProperty(row, idColumnName)
           THEN Failure("UnknownColumn", idColumnName)
           ELSE [error |-> "none", detail |-> idColumnName, value |-> row[idColumnName]]
      ELSE IF Truthy(optIdCol)
      THEN IF ~hasOwnProperty(row, optIdCol)
           THEN Failure("UnknownColumn", optIdCol)
           ELSE [error |-> "none", detail |-> optIdCol, value |-> row[optIdCol]]
      ELSE IF ~Truthy(col)
      THEN Failure("UnresolvedInsertedId", "")
      ELSE [error |-> "none", detail |-> col, value |-> row[col]]

(***************************************************************************)
(* makeInMemoryCursor.  A cursor is [rows, currentIndex]; rows is          *)
(* [defined, list].  An iterator result is [done, value], value holding    *)
(* the row (<<row>>) or nothing (<<>>, the value undefined).               *)
(***************************************************************************)
NoRows == [defined |-> FALSE, list |-> <<>>]

makeInMemoryCursor(rows) == [rows |-> rows, currentIndex |-> -1]

\* rows[index] of a JavaScript array: undefined outside the array.
ElementAt(list, index) ==
  IF index >= 0 /\ index < Len(list) THEN <<list[index + 1]>> ELSE <<>>

\* !value: a row is an object, so only undefined is falsy.
Falsy(value) == value = <<>>

\* Mutant: rows[currentIndex++].
cursorNextPostIncrement(cursor) ==
  IF ~cursor.rows.defined
  THEN [cursor |-> cursor, result |-> [done |-> TRUE, value |-> <<>>]]
  ELSE LET index == cursor.currentIndex + 1
           value == ElementAt(cursor.rows.list, cursor.currentIndex)
           rows  == IF Falsy(value) THEN NoRows ELSE cursor.rows
       IN  [cursor |-> [rows |-> rows, currentIndex |-> index],
            result |-> [done |-> ~rows.defined, value |-> value]]

\* Mutant: a cursor without rows answering done = false.
cursorNextGuardNotDone(cursor) ==
  IF ~cursor.rows.defined
  THEN [cursor |-> cursor, result |-> [done |-> FALSE, value |-> <<>>]]
  ELSE LET index == cursor.currentIndex + 1
           value == ElementAt(cursor.rows.list, index)
           rows  == IF Falsy(value) THEN NoRows ELSE cursor.rows
       IN  [cursor |-> [rows |-> rows, currentIndex |-> index],
            result |-> [done |-> ~rows.defined, value |-> value]]

\* next(): [cursor, result].
cursorNext(cursor) ==
  IF ~cursor.rows.defined
  THEN [cursor |-> cursor, result |-> [done |-> TRUE, value |-> <<>>]]
  ELSE LET index == cursor.currentIndex + 1
           value == ElementAt(cursor.rows.list, index)
           rows  == IF Falsy(value) THEN NoRows ELSE cursor.rows
       IN  [cursor |-> [rows |-> rows, currentIndex |-> index],
            result |-> [done |-> ~rows.defined, value |-> value]]

\* Mutant: the list kept.
cursorReturnKeepsRows(cursor) ==
  [cursor |-> cursor, result |-> [done |-> TRUE, value |-> <<>>]]

\* return(): [cursor, result].
cursorReturn(cursor) ==
  [cursor |-> [cursor EXCEPT !.rows = NoRows],
   result |-> [done |-> TRUE, value |-> <<>>]]

\* throw(err): [cursor, thrown].
cursorThrow(cursor, err) ==
  [cursor |-> [cursor EXCEPT !.rows = NoRows], thrown |-> err]

(***************************************************************************)
(* The state.                                                              *)
(***************************************************************************)
VARIABLES
  options,     \* options[c]: the LadcPgOptions of connection c
  psSequence,  \* the module-level counter of prepared statements
  stmts,       \* the prepared statements, in creation order
  call,        \* the last call of the connection or statement contract
  execResult,  \* the BasicExecResult of the last exec: [defined, result]
  inserted,    \* the last call of getInsertedId: [called, arg, outcome]
  cursor,      \* the cursor last made: [defined, state]
  iter,        \* what was asked of that cursor, and its last answer
  merge,       \* mergeParams on its own: [params1, params2, called, result]
  heap,        \* the arrays as objects: heap[ref], the reference 0 is undefined
  refs,        \* the prepared statements as closures over references
  inflight,    \* the queries handed to the engine and not answered yet
  client       \* the pg Client of createPgConnection: [state, handed, rejected]

vars ==
  <<options, psSequence, stmts, call, execResult, inserted, cursor, iter, merge,
    heap, refs, inflight, client>>

(***************************************************************************)
(* Bounds and input sets.                                                  *)
(***************************************************************************)
MaxStmts == 2    \* prepared statements created
MaxRows  == 3    \* rows of the list a cursor is made over
MaxCalls == 5    \* calls of next() on one cursor
MaxLen   == 2    \* length of the parameter arrays merged
MaxPos   == 2    \* positions given to bind, keys given to unbind
MaxHeap  == 3    \* arrays alive at a time
MaxInflight == 1 \* queries handed to the engine and not answered

Mapping == [defined |-> TRUE, map |-> ("users" :> "id") @@ ("Posts" :> "pid")]
NoMapping == [defined |-> FALSE, map |-> NoElems]

OptionSets ==
  [autoincMapping : {Mapping, NoMapping}, useReturningAll : BOOLEAN, inMemoryCursor : BOOLEAN]

NamedParams == NamedOf("n" :> "a")

CallParams == {UndefinedParams, ArrayOf(<<"b">>), NamedParams}

\* Rows.  The value of a column names the column, so that a value taken
\* from another column shows.
RowOf(columns) == [c \in columns |-> "value of " \o c]

Row1 == RowOf({"id", "pid"})
Row2 == RowOf({"title"})
Row3 == RowOf({"id", "title"})

\* What the engine session answers to a query: a failure, or a QueryResult.
EngineFailure == [ok |-> FALSE, rows |-> <<>>, rowCount |-> 0]
QueryResult(rows, rowCount) == [ok |-> TRUE, rows |-> rows, rowCount |-> rowCount]

\* No query handed to the engine, so no answer.
NoAnswer == [ok |-> FALSE, rows |-> <<>>, rowCount |-> -1]

EngineResponses ==
  {EngineFailure, QueryResult(<<>>, 1), QueryResult(<<Row1>>, 1), QueryResult(<<Row1, Row2>>, 2)}

(***************************************************************************)
(* Initial values.                                                         *)
(***************************************************************************)
NoCall ==
  [op |-> "none", conn |-> 0, ps |-> 0, sql |-> "", params |-> UndefinedParams,
   key |-> "", error |-> "none", sent |-> <<>>, answer |-> NoAnswer, rows |-> <<>>]

NoExecResult ==
  [defined |-> FALSE, result |-> toBasicExecResult(QueryResult(<<>>, 0), Undefined, Undefined)]

NotInserted == [called |-> FALSE, arg |-> Undefined, outcome |-> Failure("none", "")]

NoCursor == [defined |-> FALSE, state |-> makeInMemoryCursor(NoRows)]

NoIter ==
  [source |-> NoRows, nexts |-> 0, closed |-> FALSE, op |-> "none", err |-> "none",
   result |-> [done |-> FALSE, value |-> <<>>], thrown |-> "none"]

NoMerge ==
  [params1 |-> UndefinedParams, params2 |-> UndefinedParams, called |-> FALSE,
   result |-> [error |-> "none", value |-> UndefinedParams]]

\* A client that the caller of toBasicMainConnection has connected.
GivenClient == [state |-> "open", handed |-> TRUE, rejected |-> FALSE]

\* Calls taken one at a time, on arrays nobody else holds: no object is
\* shared and no query is in flight between two steps.
Serial ==
  /\ heap = [ref \in {} |-> UndefinedParams]
  /\ refs = <<>>
  /\ inflight = <<>>
  /\ client = GivenClient

(***************************************************************************)
(* The engine session: client.query(config) is handed the query and        *)
(* answers with a QueryResult or fails.  call.sent lists the queries the   *)
(* last call handed to it, call.answer is the answer to the last of them.  *)
(***************************************************************************)
Query(name, text, values) == [name |-> name, text |-> text, values |-> values]

Called(op, c, ps, sql, params, error, sent, rows) ==
  [op |-> op, conn |-> c, ps |-> ps, sql |-> sql, params |-> params, key |-> "",
   error |-> error, sent |-> sent, answer |-> NoAnswer, rows |-> rows]

\* Mutant: a failed query handed to the engine once more.
AwaitedRetries(op, c, ps, sql, params, merged, values, q, resp) ==
  IF merged.error # "none"
  THEN Called(op, c, ps, sql, params, merged.error, <<>>, <<>>)
  ELSE IF values.error # "none"
  THEN Called(op, c, ps, sql, params, values.error, <<>>, <<>>)
  ELSE IF ~resp.ok
  THEN [Called(op, c, ps, sql, params, "EngineError", <<q, q>>, <<>>) EXCEPT !.answer = resp]
  ELSE [Called(op, c, ps, sql, params, "none", <<q>>, <<>>) EXCEPT !.answer = resp]

\* The call record of a handler that builds the query q (values: the outcome
\* of toPositionalParameters over merged, the outcome of mergeParams) and
\* awaits the engine's answer resp to it.
Awaited(op, c, ps, sql, params, merged, values, q, resp) ==
  IF merged.error # "none"
  THEN Called(op, c, ps, sql, params, merged.error, <<>>, <<>>)
  ELSE IF values.error # "none"
  THEN Called(op, c, ps, sql, params, values.error, <<>>, <<>>)
  ELSE IF ~resp.ok
  THEN [Called(op, c, ps, sql, params, "EngineError", <<q>>, <<>>) EXCEPT !.answer = resp]
  ELSE [Called(op, c, ps, sql, params, "none", <<q>>, <<>>) EXCEPT !.answer = resp]

NotMerged(params) == [error |-> "none", value |-> params]

FeatureDisabled(op, c, ps, sql, params) ==
  Called(op, c, ps, sql, params, "FeatureDisabled", <<>>, <<>>)

\* Mutant: the option not looked at.
cursorNeverDisabled(opts) == FALSE

\* !options.inMemoryCursor
cursorDisabled(opts) == ~opts.inMemoryCursor

\* The calls that hand a query with parameters to the engine.
Queries == {"exec", "all", "cursor"}

\* The cursor made over the rows of an answered query, and its record.
CursorOver(rows) == [defined |-> TRUE, state |-> makeInMemoryCursor([defined |-> TRUE, list |-> rows])]
IterOver(rows) == [NoIter EXCEPT !.source = [defined |-> TRUE, list |-> rows]]

(***************************************************************************)
(* toBasicMainConnection: exec, all, cursor, script, prepare.              *)
(***************************************************************************)
\* Mutant: the inserted id resolved when the engine answers.
ConnExecResolvesEagerly(c, sql, params, resp) ==
  LET rw     == addReturningToInsert(sql, options[c])
      values == toPositionalParameters(params)
      q      == Query(Undefined, rw.sql, values.value)
      done   == Awaited("exec", c, 0, sql, params, NotMerged(params), values, q, resp)
      result == toBasicExecResult(resp, rw.insertTable, rw.idColumnName)
      id     == getInsertedId(result, Undefined)
  IN  /\ call' = IF done.error = "none" THEN [done EXCEPT !.error = id.error] ELSE done
      /\ execResult' = IF done.error = "none" /\ id.error = "none"
                       THEN [defined |-> TRUE, result |-> result]
                       ELSE NoExecResult
      /\ inserted' = NotInserted
      /\ cursor' = NoCursor
      /\ iter' = NoIter
      /\ UNCHANGED <<options, psSequence, stmts, merge, heap, refs, inflight, client>>

ConnExec(c, sql, params, resp) ==
  LET rw     == addReturningToInsert(sql, options[c])
      values == toPositionalParameters(params)
      q      == Query(Undefined, rw.sql, values.value)
      done   == Awaited("exec", c, 0, sql, params, NotMerged(params), values, q, resp)
  IN  /\ call' = done
      /\ execResult' = IF done.error = "none"
                       THEN [defined |-> TRUE,
                             result |-> toBasicExecResult(resp, rw.insertTable, rw.idColumnName)]
                       ELSE NoExecResult
      /\ inserted' = NotInserted
      /\ cursor' = NoCursor
      /\ iter' = NoIter
      /\ UNCHANGED <<options, psSequence, stmts, merge, heap, refs, inflight, client>>

ConnAll(c, sql, params, resp) ==
  LET values == toPositionalParameters(params)
      q      == Query(Undefined, sql, values.value)
      done   == Awaited("all", c, 0, sql, params, NotMerged(params), values, q, resp)
  IN  /\ call' = IF done.error = "none" THEN [done EXCEPT !.rows = toRows(resp)] ELSE done
      /\ execResult' = NoExecResult
      /\ inserted' = NotInserted
      /\ cursor' = NoCursor
      /\ iter' = NoIter
      /\ UNCHANGED <<options, psSequence, stmts, merge, heap, refs, inflight, client>>

ConnCursor(c, sql, params, resp) ==
  LET values == toPositionalParameters(params)
      q      == Query(Undefined, sql, values.value)
      done   == IF cursorDisabled(options[c])
                THEN FeatureDisabled("cursor", c, 0, sql, params)
                ELSE Awaited("cursor", c, 0, sql, params, NotMerged(params), values, q, resp)
  IN  /\ call' = done
      /\ cursor' = IF done.error = "none" THEN CursorOver(toRows(resp)) ELSE NoCursor
      /\ iter' = IF done.error = "none" THEN IterOver(toRows(resp)) ELSE NoIter
      /\ execResult' = NoExecResult
      /\ inserted' = NotInserted
      /\ UNCHANGED <<options, psSequence, stmts, merge, heap, refs, inflight, client>>

ConnScript(c, sql, resp) ==
  /\ call' = [Called("script", c, 0, sql, UndefinedParams,
                      IF resp.ok THEN "none" ELSE "EngineError",
                      <<Query(Undefined, sql, UndefinedParams)>>, <<>>)
                 EXCEPT !.answer = resp]
  /\ execResult' = NoExecResult
  /\ inserted' = NotInserted
  /\ cursor' = NoCursor
  /\ iter' = NoIter
  /\ UNCHANGED <<options, psSequence, stmts, merge, heap, refs, inflight, client>>

(***************************************************************************)
(* makeBasicPreparedStatement.                                             *)
(***************************************************************************)
\* `ladc-ps-${++psSequence}`, given the counter once incremented.
psNameOf(sequence) == "ladc-ps-" \o ToString(sequence)

\* Mutant: the counter left as it is.
NoIncrement(sequence) == sequence

\* ++psSequence
Increment(sequence) == sequence + 1

Prepare(c, sql, initialParams) ==
  /\ Len(stmts) < MaxStmts
  /\ psSequence' = Increment(psSequence)
  /\ stmts' = Append(stmts, [psName |-> psNameOf(psSequence'), conn |-> c, sql |-> sql,
                             boundParams |-> initialParams])
  /\ call' = Called("prepare", c, Len(stmts) + 1, sql, initialParams, "none", <<>>, <<>>)
  /\ execResult' = NoExecResult
  /\ inserted' = NotInserted
  /\ cursor' = NoCursor
  /\ iter' = NoIter
  /\ UNCHANGED <<options, merge, heap, refs, inflight, client>>

\* A key of bind and unbind, number | string.
NumberKey(n) == [type |-> "number", num |-> n, str |-> ToString(n)]
StringKey(name) == [type |-> "string", num |-> 0, str |-> name]

\* target[index] = value: an array index when the target is an array and the
\* index is not negative, a property otherwise.
Assign(target, index, value) ==
  IF IsArray(target) /\ index >= 0
  THEN ArraySet(target, index, value)
  ELSE PropSet(target, ToString(index), value)

\* The bound parameters after bind(key, value) with a number key.
bindNumber(boundParams, key, value) ==
  Assign(IF boundParams.kind = "undefined" THEN ArrayOf(<<>>) ELSE boundParams,
         key.num - 1, value)

\* Mutant: unbind counting its key from 1, as bind does.
unbindKeyOneBased(boundParams, key) ==
  IF boundParams.kind = "undefined" THEN boundParams
  ELSE IF key.type = "number" THEN Assign(boundParams, key.num - 1, Undefined)
  ELSE PropSet(boundParams, key.str, Undefined)

\* The bound parameters after unbind(key); a string key of the model is no
\* array index.
unbindKey(boundParams, key) ==
  IF boundParams.kind = "undefined" THEN boundParams
  ELSE IF key.type = "number" THEN Assign(boundParams, key.num, Undefined)
  ELSE PropSet(boundParams, key.str, Undefined)

PsBind(i, key, value) ==
  /\ i \in DOMAIN stmts
  /\ stmts' = IF key.type = "string" THEN stmts
              ELSE [stmts EXCEPT ![i].boundParams = bindNumber(@, key, value)]
  /\ call' = [Called("bind", stmts[i].conn, i, stmts[i].sql, ArrayOf(<<value>>),
                       IF key.type = "string" THEN "NotImplemented" ELSE "none", <<>>, <<>>)
                EXCEPT !.key = key.type \o " " \o key.str]
  /\ execResult' = NoExecResult
  /\ inserted' = NotInserted
  /\ cursor' = NoCursor
  /\ iter' = NoIter
  /\ UNCHANGED <<options, psSequence, merge, heap, refs, inflight, client>>

PsUnbind(i, key) ==
  /\ i \in DOMAIN stmts
  /\ stmts' = [stmts EXCEPT ![i].boundParams = unbindKey(@, key)]
  /\ call' = [Called("unbind", stmts[i].conn, i, stmts[i].sql, UndefinedParams, "none", <<>>, <<>>)
                EXCEPT !.key = key.type \o " " \o key.str]
  /\ execResult' = NoExecResult
  /\ inserted' = NotInserted
  /\ cursor' = NoCursor
  /\ iter' = NoIter
  /\ UNCHANGED <<options, psSequence, merge, heap, refs, inflight, client>>

\* Mutant: the rewritten text kept as the text of the statement.
PsExecKeepsRewritten(i, params, resp) ==
  /\ i \in DOMAIN stmts
  /\ LET st     == stmts[i]
         rw     == addReturningToInsert(st.sql, options[st.conn])
         merged == mergeParams(st.boundParams, params)
         values == toPositionalParameters(merged.value)
         q      == Query(st.psName, rw.sql, values.value)
         done   == Awaited("exec", st.conn, i, st.sql, params, merged, values, q, resp)
     IN  /\ call' = done
         /\ stmts' = [stmts EXCEPT ![i].sql = rw.sql]
         /\ execResult' = IF done.error = "none"
                          THEN [defined |-> TRUE,
                                result |-> toBasicExecResult(resp, rw.insertTable, rw.idColumnName)]
                          ELSE NoExecResult
  /\ inserted' = NotInserted
  /\ cursor' = NoCursor
  /\ iter' = NoIter
  /\ UNCHANGED <<options, psSequence, merge, heap, refs, inflight, client>>

PsExec(i, params, resp) ==
  /\ i \in DOMAIN stmts
  /\ LET st     == stmts[i]
         rw     == addReturningToInsert(st.sql, options[st.conn])
         merged == mergeParams(st.boundParams, params)
         values == toPositionalParameters(merged.value)
         q      == Query(st.psName, rw.sql, values.value)
         done   == Awaited("exec", st.conn, i, st.sql, params, merged, values, q, resp)
     IN  /\ call' = done
         /\ execResult' = IF done.error = "none"
                          THEN [defined |-> TRUE,
                                result |-> toBasicExecResult(resp, rw.insertTable, rw.idColumnName)]
                          ELSE NoExecResult
  /\ inserted' = NotInserted
  /\ cursor' = NoCursor
  /\ iter' = NoIter
  /\ UNCHANGED <<options, psSequence, stmts, merge, heap, refs, inflight, client>>

\* Mutant: the text rewritten as exec rewrites it.
PsAllRewrites(i, params, resp) ==
  /\ i \in DOMAIN stmts
  /\ LET st     == stmts[i]
         rw     == addReturningToInsert(st.sql, options[st.conn])
         merged == mergeParams(st.boundParams, params)
         values == toPositionalParameters(merged.value)
         q      == Query(st.psName, rw.sql, values.value)
         done   == Awaited("all", st.conn, i, st.sql, params, merged, values, q, resp)
     IN  call' = IF done.error = "none" THEN [done EXCEPT !.rows = toRows(resp)] ELSE done
  /\ execResult' = NoExecResult
  /\ inserted' = NotInserted
  /\ cursor' = NoCursor
  /\ iter' = NoIter
  /\ UNCHANGED <<options, psSequence, stmts, merge, heap, refs, inflight, client>>

PsAll(i, params, resp) ==
  /\ i \in DOMAIN stmts
  /\ LET st     == stmts[i]
         merged == mergeParams(st.boundParams, params)
         values == toPositionalParameters(merged.value)
         q      == Query(st.psName, st.sql, values.value)
         done   == Awaited("all", st.conn, i, st.sql, params, merged, values, q, resp)
     IN  call' = IF done.error = "none" THEN [done EXCEPT !.rows = toRows(resp)] ELSE done
  /\ execResult' = NoExecResult
  /\ inserted' = NotInserted
  /\ cursor' = NoCursor
  /\ iter' = NoIter
  /\ UNCHANGED <<options, psSequence, stmts, merge, heap, refs, inflight, client>>

\* Mutant: the merged parameters kept as the bound ones.
PsCursorKeepsMerged(i, params, resp) ==
  /\ i \in DOMAIN stmts
  /\ LET st     == stmts[i]
         merged == mergeParams(st.boundParams, params)
         values == toPositionalParameters(merged.value)
         q      == Query(st.psName, st.sql, values.value)
         done   == IF cursorDisabled(options[st.conn])
                   THEN FeatureDisabled("cursor", st.conn, i, st.sql, params)
                   ELSE Awaited("cursor", st.conn, i, st.sql, params, merged, values, q, resp)
     IN  /\ call' = done
         /\ stmts' = IF done.sent # <<>> THEN [stmts EXCEPT ![i].boundParams = merged.value]
                     ELSE stmts
         /\ cursor' = IF done.error = "none" THEN CursorOver(toRows(resp)) ELSE NoCursor
         /\ iter' = IF done.error = "none" THEN IterOver(toRows(resp)) ELSE NoIter
  /\ execResult' = NoExecResult
  /\ inserted' = NotInserted
  /\ UNCHANGED <<options, psSequence, merge, heap, refs, inflight, client>>

PsCursor(i, params, resp) ==
  /\ i \in DOMAIN stmts
  /\ LET st     == stmts[i]
         merged == mergeParams(st.boundParams, params)
         values == toPositionalParameters(merged.value)
         q      == Query(st.psName, st.sql, values.value)
         done   == IF cursorDisabled(options[st.conn])
                   THEN FeatureDisabled("cursor", st.conn, i, st.sql, params)
                   ELSE Awaited("cursor", st.conn, i, st.sql, params, merged, values, q, resp)
     IN  /\ call' = done
         /\ cursor' = IF done.error = "none" THEN CursorOver(toRows(resp)) ELSE NoCursor
         /\ iter' = IF done.error = "none" THEN IterOver(toRows(resp)) ELSE NoIter
  /\ execResult' = NoExecResult
  /\ inserted' = NotInserted
  /\ UNCHANGED <<options, psSequence, stmts, merge, heap, refs, inflight, client>>

(***************************************************************************)
(* The calls on what exec and cursor returned.                             *)
(***************************************************************************)
GetInsertedId(idColumnName) ==
  /\ execResult.defined
  /\ inserted' = [called |-> TRUE, arg |-> idColumnName,
                  outcome |-> getInsertedId(execResult.result, idColumnName)]
  /\ UNCHANGED <<options, psSequence, stmts, call, execResult, cursor, iter, merge, heap, refs, inflight, client>>

CursorNext ==
  /\ cursor.defined
  /\ iter.nexts < MaxCalls
  /\ LET r == cursorNext(cursor.state)
     IN  /\ cursor' = [cursor EXCEPT !.state = r.cursor]
         /\ iter' = [iter EXCEPT !.nexts = @ + 1, !.op = "next", !.result = r.result,
                                 !.thrown = "none"]
  /\ UNCHANGED <<options, psSequence, stmts, call, execResult, inserted, merge, heap, refs, inflight, client>>

CursorReturn ==
  /\ cursor.defined
  /\ LET r == cursorReturn(cursor.state)
     IN  /\ cursor' = [cursor EXCEPT !.state = r.cursor]
         /\ iter' = [iter EXCEPT !.closed = TRUE, !.op = "return", !.result = r.result,
                                 !.thrown = "none"]
  /\ UNCHANGED <<options, psSequence, stmts, call, execResult, inserted, merge, heap, refs, inflight, client>>

CursorThrow(err) ==
  /\ cursor.defined
  /\ LET r == cursorThrow(cursor.state, err)
     IN  /\ cursor' = [cursor EXCEPT !.state = r.cursor]
         /\ iter' = [iter EXCEPT !.closed = TRUE, !.op = "throw", !.err = err,
                                 !.result = NoIter.result, !.thrown = r.thrown]
  /\ UNCHANGED <<options, psSequence, stmts, call, execResult, inserted, merge, heap, refs, inflight, client>>

Merge ==
  /\ ~merge.called
  /\ merge' = [merge EXCEPT !.called = TRUE,
                            !.result = mergeParams(merge.params1, merge.params2)]
  /\ UNCHANGED <<options, psSequence, stmts, call, execResult, inserted, cursor, iter, heap, refs, inflight, client>>

(***************************************************************************)
(* Specifications.                                                         *)
(***************************************************************************)
InitialParams == {UndefinedParams, ArrayOf(<<"a">>), NamedParams}

\* The statements given to all, cursor and script, which hand the text on as
\* it is, and to prepare.
QuerySqls == {SqlInsertUsers, SqlSelect}
PreparedSqls == {SqlInsertPosts, SqlSelect}

\* What the engine answers to them.
RowsResponses == {EngineFailure, QueryResult(<<>>, 0), QueryResult(<<Row1, Row2>>, 2)}

Idle ==
  /\ psSequence = 0
  /\ stmts = <<>>
  /\ call = NoCall
  /\ execResult = NoExecResult
  /\ inserted = NotInserted
  /\ cursor = NoCursor
  /\ iter = NoIter
  /\ merge = NoMerge
  /\ Serial

\* Spec: one connection, with any options, and the one statement it prepares.
Init ==
  /\ options \in [{1} -> OptionSets]
  /\ Idle

Next ==
  \/ \E c \in DOMAIN options, sql \in SqlTexts, params \in CallParams, resp \in EngineResponses :
       ConnExec(c, sql, params, resp)
  \/ \E c \in DOMAIN options, sql \in QuerySqls, params \in CallParams, resp \in RowsResponses :
       ConnAll(c, sql, params, resp)
  \/ \E c \in DOMAIN options, sql \in QuerySqls, params \in CallParams, resp \in RowsResponses :
       ConnCursor(c, sql, params, resp)
  \/ \E c \in DOMAIN options, sql \in QuerySqls, resp \in RowsResponses :
       ConnScript(c, sql, resp)
  \/ \E c \in DOMAIN options, sql \in PreparedSqls, params \in InitialParams :
       stmts = <<>> /\ Prepare(c, sql, params)
  \/ \E i \in DOMAIN stmts, key \in {NumberKey(1), StringKey("n")} : PsBind(i, key, "b")
  \/ \E i \in DOMAIN stmts : PsUnbind(i, NumberKey(0))
  \/ \E i \in DOMAIN stmts, params \in CallParams, resp \in EngineResponses :
       PsExec(i, params, resp)
  \/ \E i \in DOMAIN stmts, params \in CallParams, resp \in RowsResponses :
       PsAll(i, params, resp)
  \/ \E i \in DOMAIN stmts, params \in CallParams, resp \in RowsResponses :
       PsCursor(i, params, resp)
  \/ GetInsertedId(Undefined)

Spec == Init /\ [][Next]_vars

(***************************************************************************)
(* SpecCursor: a cursor made over any list of rows, and the calls of its   *)
(* next, return and throw.                                                 *)
(***************************************************************************)
DefaultOptions ==
  [autoincMapping |-> NoMapping, useReturningAll |-> FALSE, inMemoryCursor |-> TRUE]

CursorRows == {Row1, Row2, Row3}

RowLists == UNION {[1..n -> CursorRows] : n \in 0..MaxRows}

\* What makeInMemoryCursor is given: a list, or nothing.
CursorInputs == {NoRows} \cup {[defined |-> TRUE, list |-> l] : l \in RowLists}

Errors == {"boom", "abort"}

InitCursor ==
  /\ options = [c \in {1} |-> DefaultOptions]
  /\ psSequence = 0
  /\ stmts = <<>>
  /\ call = NoCall
  /\ execResult = NoExecResult
  /\ inserted = NotInserted
  /\ merge = NoMerge
  /\ Serial
  /\ \E rows \in CursorInputs :
       /\ cursor = [defined |-> TRUE, state |-> makeInMemoryCursor(rows)]
       /\ iter = [NoIter EXCEPT !.source = rows]

NextCursor ==
  \/ CursorNext
  \/ CursorReturn
  \/ \E err \in Errors : CursorThrow(err)

SpecCursor == InitCursor /\ [][NextCursor]_vars

(***************************************************************************)
(* SpecInsertId: exec on a connection, the engine answering with any rows, *)
(* and getInsertedId on its result.                                        *)
(***************************************************************************)
IdColumns == {"id", "pid", "posts_id", "POSTS_ID"}

IdArgs == {Undefined, "", "id", "pid"}

InsertResponses ==
  {QueryResult(<<>>, 1), QueryResult(<<Row1, Row3>>, 2)}
    \cup {QueryResult(<<RowOf(columns)>>, 1) : columns \in SUBSET IdColumns}

NextInsertId ==
  \/ \E c \in DOMAIN options, sql \in SqlTexts, resp \in InsertResponses :
       ConnExec(c, sql, UndefinedParams, resp)
  \/ \E arg \in IdArgs : GetInsertedId(arg)

SpecInsertId == Init /\ [][NextInsertId]_vars

(***************************************************************************)
(* SpecMerge: mergeParams on any two parameter sets.                       *)
(***************************************************************************)
MergeValues == {"a", "b", Undefined}

\* The arrays of a length up to MaxLen, sparse or not, whose last index is
\* present (as it is in an array literal, and in what bind and unbind build).
ArrayInputs ==
  UNION {UNION {{[kind |-> "array", len |-> n, elems |-> f, props |-> NoElems] :
                   f \in [present -> MergeValues]} :
                present \in {x \in SUBSET (0..(n - 1)) : n = 0 \/ (n - 1) \in x}} :
         n \in 0..MaxLen}

NamedInputs == {NamedParams, NamedOf(("n" :> "b") @@ ("m" :> "b"))}

MergeInputs == {UndefinedParams} \cup NamedInputs \cup ArrayInputs

InitMerge ==
  /\ options = [c \in {1} |-> DefaultOptions]
  /\ psSequence = 0
  /\ stmts = <<>>
  /\ call = NoCall
  /\ execResult = NoExecResult
  /\ inserted = NotInserted
  /\ cursor = NoCursor
  /\ iter = NoIter
  /\ Serial
  /\ \E params1 \in MergeInputs, params2 \in MergeInputs :
       merge = [NoMerge EXCEPT !.params1 = params1, !.params2 = params2]

NextMerge == Merge

SpecMerge == InitMerge /\ [][NextMerge]_vars

(***************************************************************************)
(* SpecPrepare: several connections and the statements prepared on them.   *)
(***************************************************************************)
PrepareOptionSets ==
  {DefaultOptions,
   [autoincMapping |-> Mapping, useReturningAll |-> FALSE, inMemoryCursor |-> FALSE]}

InitPrepare ==
  /\ options \in [{1, 2} -> PrepareOptionSets]
  /\ Idle

AnswerSets == {EngineFailure, QueryResult(<<Row1>>, 1)}

NextPrepare ==
  \/ \E c \in DOMAIN options, sql \in PreparedSqls, params \in {UndefinedParams, ArrayOf(<<"a">>)} :
       Prepare(c, sql, params)
  \/ \E i \in DOMAIN stmts, resp \in AnswerSets : PsExec(i, UndefinedParams, resp)
  \/ \E i \in DOMAIN stmts, resp \in AnswerSets : PsAll(i, UndefinedParams, resp)
  \/ \E i \in DOMAIN stmts, resp \in AnswerSets : PsCursor(i, UndefinedParams, resp)

SpecPrepare == InitPrepare /\ [][NextPrepare]_vars

(***************************************************************************)
(* SpecStatement: one prepared statement, bound and unbound at any         *)
(* position, and executed any number of times.                             *)
(***************************************************************************)
BindKeys == {NumberKey(n) : n \in 1..MaxPos} \cup {StringKey("n")}

UnbindKeys == {NumberKey(n) : n \in 0..MaxPos}

NextStatement ==
  \/ \E c \in DOMAIN options, sql \in PreparedSqls, params \in InitialParams :
       stmts = <<>> /\ Prepare(c, sql, params)
  \/ \E i \in DOMAIN stmts, key \in BindKeys : PsBind(i, key, "b")
  \/ \E i \in DOMAIN stmts, key \in UnbindKeys : PsUnbind(i, key)
  \/ \E i \in DOMAIN stmts, params \in CallParams, resp \in AnswerSets :
       PsExec(i, params, resp)
  \/ \E i \in DOMAIN stmts, params \in CallParams, resp \in AnswerSets :
       PsAll(i, params, resp)
  \/ \E i \in DOMAIN stmts, params \in CallParams, resp \in AnswerSets :
       PsCursor(i, params, resp)

SpecStatement == Init /\ [][NextStatement]_vars

(***************************************************************************)
(* SpecShared: makeBasicPreparedStatement with its arrays as the objects   *)
(* they are, and its queries in flight.  `boundParams = initialParams`     *)
(* (line 115) copies a reference, bind and unbind write into the array     *)
(* boundParams refers to, and mergeParams returns one of its arguments     *)
(* when the other is absent.  exec, all and cursor hand their query to     *)
(* the engine and await the answer; other calls run in between.            *)
(***************************************************************************)
\* The array a reference names; the reference 0 is undefined.
Deref(h, ref) == IF ref = 0 THEN UndefinedParams ELSE h[ref]

\* The references in use, and a reference for a new array.
Live(h) == {ref \in DOMAIN h : h[ref].kind # "undefined"}
Fresh(h) == CHOOSE ref \in DOMAIN h \ Live(h) : \A other \in DOMAIN h \ Live(h) : ref <= other
New(h, array) == [h EXCEPT ![Fresh(h)] = array]

\* The arrays nothing refers to any more are collected: an array lives
\* while the caller (holders), a statement or a query in flight holds it.
Collect(h, holders, statements, queries) ==
  [ref \in DOMAIN h |->
     IF \/ ref \in holders
        \/ \E i \in DOMAIN statements : statements[i].boundParams = ref
        \/ \E k \in DOMAIN queries : queries[k].query.values = ref
     THEN h[ref] ELSE UndefinedParams]

\* mergeParams on references to arrays: [heap, value], the heap holding a
\* new array when both sides are present.
mergeParamsByReference(h, params1, params2) ==
  IF params1 = 0 THEN [heap |-> h, value |-> params2]
  ELSE IF params2 = 0 THEN [heap |-> h, value |-> params1]
  ELSE [heap |-> New(h, mergeParams(h[params1], h[params2]).value),
        value |-> Fresh(h)]

\* The array the caller holds, and its reference.
CallerArray == ArrayOf(<<"a">>)
CallerRefs == {1}

\* prepare(sql, initialParams), initialParams an array of the caller or
\* undefined.  `given` keeps what the array held when it was handed over.
PrepareShared(c, sql, initialParams) ==
  /\ Len(refs) < MaxStmts
  /\ psSequence' = Increment(psSequence)
  /\ refs' = Append(refs, [psName |-> psNameOf(psSequence'), conn |-> c, sql |-> sql,
                           initialParams |-> initialParams,
                           given |-> Deref(heap, initialParams),
                           boundParams |-> initialParams])
  /\ call' = Called("prepare", c, Len(refs) + 1, sql, Deref(heap, initialParams),
                    "none", <<>>, <<>>)
  /\ UNCHANGED <<options, stmts, execResult, inserted, cursor, iter, merge, heap, inflight, client>>

\* bind(key, value): `boundParams = []` makes a new array, and
\* `boundParams[key - 1] = value` writes into the array referred to.
BindShared(i, key, value) ==
  /\ i \in DOMAIN refs
  /\ LET ref == refs[i].boundParams
     IN  IF key.type = "string"
         THEN UNCHANGED <<heap, refs>>
         ELSE IF ref = 0
         THEN /\ Live(heap) # DOMAIN heap
              /\ heap' = New(heap, bindNumber(UndefinedParams, key, value))
              /\ refs' = [refs EXCEPT ![i].boundParams = Fresh(heap)]
         ELSE /\ heap' = [heap EXCEPT ![ref] = bindNumber(@, key, value)]
              /\ refs' = refs
  /\ call' = [Called("bind", refs[i].conn, i, refs[i].sql, ArrayOf(<<value>>),
                       IF key.type = "string" THEN "NotImplemented" ELSE "none", <<>>, <<>>)
                EXCEPT !.key = key.type \o " " \o key.str]
  /\ UNCHANGED <<options, psSequence, stmts, execResult, inserted, cursor, iter, merge, inflight, client>>

UnbindShared(i, key) ==
  /\ i \in DOMAIN refs
  /\ LET ref == refs[i].boundParams
     IN  heap' = IF ref = 0 THEN heap ELSE [heap EXCEPT ![ref] = unbindKey(@, key)]
  /\ call' = [Called("unbind", refs[i].conn, i, refs[i].sql, UndefinedParams, "none", <<>>, <<>>)
                EXCEPT !.key = key.type \o " " \o key.str]
  /\ UNCHANGED <<options, psSequence, stmts, execResult, inserted, cursor, iter, merge, refs, inflight, client>>

\* exec, all or cursor up to its await: the query is built and handed to
\* the engine.  `issued` keeps what the values held at that time.
IssueQuery(i, op, params) ==
  /\ i \in DOMAIN refs
  /\ Len(inflight) < MaxInflight
  /\ LET st     == refs[i]
         text   == IF op = "exec" THEN addReturningToInsert(st.sql, options[st.conn]).sql
                   ELSE st.sql
         merged == mergeParamsByReference(heap, st.boundParams, params)
     IN  IF op = "cursor" /\ cursorDisabled(options[st.conn])
         THEN /\ call' = FeatureDisabled(op, st.conn, i, st.sql, Deref(heap, params))
              /\ UNCHANGED <<heap, inflight>>
         ELSE /\ (st.boundParams # 0 /\ params # 0) => Live(heap) # DOMAIN heap
              /\ heap' = merged.heap
              /\ inflight' = Append(inflight,
                                    [op |-> op, ps |-> i,
                                     query |-> Query(st.psName, text, merged.value),
                                     issued |-> Deref(merged.heap, merged.value)])
              /\ call' = Called(op, st.conn, i, st.sql, Deref(heap, params), "pending", <<>>, <<>>)
  /\ UNCHANGED <<options, psSequence, stmts, execResult, inserted, cursor, iter, merge, refs, client>>

\* The engine answers the oldest query in flight, and the call that awaits
\* it goes on; call.sent holds the query with the values its array holds
\* by then.
EngineAnswers(resp) ==
  /\ inflight # <<>>
  /\ LET first == Head(inflight)
         st    == refs[first.ps]
         q     == Query(first.query.name, first.query.text, Deref(heap, first.query.values))
     IN  call' = [Called(first.op, st.conn, first.ps, st.sql, UndefinedParams,
                         IF resp.ok THEN "none" ELSE "EngineError", <<q>>, <<>>)
                   EXCEPT !.answer = resp]
  /\ inflight' = Tail(inflight)
  /\ heap' = Collect(heap, CallerRefs, refs, inflight')
  /\ UNCHANGED <<options, psSequence, stmts, execResult, inserted, cursor, iter, merge, refs, client>>

InitShared ==
  /\ options = [c \in {1} |-> DefaultOptions]
  /\ psSequence = 0
  /\ stmts = <<>>
  /\ call = NoCall
  /\ execResult = NoExecResult
  /\ inserted = NotInserted
  /\ cursor = NoCursor
  /\ iter = NoIter
  /\ merge = NoMerge
  /\ heap = [ref \in 1..MaxHeap |-> IF ref \in CallerRefs THEN CallerArray ELSE UndefinedParams]
  /\ refs = <<>>
  /\ inflight = <<>>
  /\ client = GivenClient

NextShared ==
  \/ \E c \in DOMAIN options, sql \in PreparedSqls, initialParams \in {0} \cup CallerRefs :
       refs = <<>> /\ PrepareShared(c, sql, initialParams)
  \/ \E i \in DOMAIN refs, n \in 1..MaxPos : BindShared(i, NumberKey(n), "b")
  \/ \E i \in DOMAIN refs, n \in 0..(MaxPos - 1) : UnbindShared(i, NumberKey(n))
  \/ \E i \in DOMAIN refs, op \in Queries, params \in {0} \cup CallerRefs : IssueQuery(i, op, params)
  \/ \E resp \in AnswerSets : EngineAnswers(resp)

SpecShared == InitShared /\ [][NextShared]_vars

(***************************************************************************)
(* SpecConnect: createPgConnection, the session it starts to connect, and  *)
(* the connection the caller makes of the client it is handed.             *)
(***************************************************************************)
\* No client made yet.
NoClient == [state |-> "none", handed |-> FALSE, rejected |-> FALSE]

\* createPgConnection(config): `new Client(config)`, `client.connect()`
\* started and its promise dropped, `return client`: the promise of
\* createPgConnection is fulfilled with the client at once.
CreatePgConnection ==
  /\ client.state = "none"
  /\ client' = [state |-> "connecting", handed |-> TRUE, rejected |-> FALSE]
  /\ UNCHANGED <<options, psSequence, stmts, call, execResult, inserted, cursor, iter, merge,
                 heap, refs, inflight>>

\* The engine session finishes connect(): the promise nobody holds is
\* fulfilled.
ConnectCompletes ==
  /\ client.state = "connecting"
  /\ client' = [client EXCEPT !.state = "open"]
  /\ UNCHANGED <<options, psSequence, stmts, call, execResult, inserted, cursor, iter, merge,
                 heap, refs, inflight>>

\* connect() fails: the promise nobody holds is rejected, and the promise
\* of createPgConnection, fulfilled already, is not.
ConnectFails ==
  /\ client.state = "connecting"
  /\ client' = [client EXCEPT !.state = "failed"]
  /\ UNCHANGED <<options, psSequence, stmts, call, execResult, inserted, cursor, iter, merge,
                 heap, refs, inflight>>

\* close(): `await client.end()`.
ConnClose(c) ==
  /\ client' = [client EXCEPT !.state = "ended"]
  /\ call' = Called("close", c, 0, "", UndefinedParams, "none", <<>>, <<>>)
  /\ execResult' = NoExecResult
  /\ inserted' = NotInserted
  /\ cursor' = NoCursor
  /\ iter' = NoIter
  /\ UNCHANGED <<options, psSequence, stmts, merge, heap, refs, inflight>>

\* What the session answers to a query: anything once it is open, a failure
\* when it failed to connect or was ended, and nothing while it connects
\* (the query waits).
SessionAnswers(state) ==
  IF state = "open" THEN RowsResponses
  ELSE IF state \in {"failed", "ended"} THEN {EngineFailure}
  ELSE {}

InitConnect ==
  /\ options \in [{1} -> PrepareOptionSets]
  /\ psSequence = 0
  /\ stmts = <<>>
  /\ call = NoCall
  /\ execResult = NoExecResult
  /\ inserted = NotInserted
  /\ cursor = NoCursor
  /\ iter = NoIter
  /\ merge = NoMerge
  /\ heap = [ref \in {} |-> UndefinedParams]
  /\ refs = <<>>
  /\ inflight = <<>>
  /\ client = NoClient

NextConnect ==
  \/ CreatePgConnection
  \/ ConnectCompletes
  \/ ConnectFails
  \/ \E c \in DOMAIN options, sql \in QuerySqls, params \in CallParams,
        resp \in SessionAnswers(client.state) :
       client.handed /\ ConnExec(c, sql, params, resp)
  \/ \E c \in DOMAIN options, sql \in QuerySqls, params \in CallParams,
        resp \in SessionAnswers(client.state) :
       client.handed /\ ConnAll(c, sql, params, resp)
  \/ \E c \in DOMAIN options, sql \in QuerySqls, resp \in SessionAnswers(client.state) :
       client.handed /\ ConnScript(c, sql, resp)
  \/ \E c \in DOMAIN options : client.handed /\ ConnClose(c)

SpecConnect == InitConnect /\ [][NextConnect]_vars

(***************************************************************************)
(* The cursor (SpecCursor).                                                *)
(***************************************************************************)
Terminated == [done |-> TRUE, value |-> <<>>]

\* C1: over a list of n rows, while only next() is called, the k-th call
\* returns the k-th row with done = false for k <= n, and done = true with
\* no value for every k > n.
C1_NextYieldsRowsInOrderThenTerminates ==
  (iter.op = "next" /\ ~iter.closed /\ iter.source.defined) =>
    LET list == iter.source.list
        k    == iter.nexts
    IN  iter.result = IF k <= Len(list)
                      THEN [done |-> FALSE, value |-> <<list[k]>>]
                      ELSE Terminated

\* Two rows, four calls of next(): the second call past the end.
C1_Witness ==
  /\ iter.op = "next"
  /\ ~iter.closed
  /\ iter.source = [defined |-> TRUE, list |-> <<Row1, Row2>>]
  /\ iter.nexts = 4
  /\ iter.result = Terminated

\* C8: return() and throw(err) drop the list; return() answers done = true
\* with no value, throw(err) throws err, and every next() after either
\* answers done = true with no value.
C8_ReturnAndThrowDropTheRows ==
  /\ iter.closed => ~cursor.state.rows.defined
  /\ iter.op = "return" => iter.result = Terminated
  /\ iter.op = "throw" => iter.thrown = iter.err
  /\ (iter.closed /\ iter.op = "next") => iter.result = Terminated

\* Three rows, closed when at most one was read, and next() called after.
C8_Witness ==
  /\ iter.closed
  /\ iter.op = "next"
  /\ iter.source = [defined |-> TRUE, list |-> <<Row1, Row2, Row3>>]
  /\ iter.nexts = 2
  /\ iter.result = Terminated

(***************************************************************************)
(* getInsertedId (SpecInsertId).                                           *)
(***************************************************************************)
\* C2: getInsertedId fails on a result of zero rows (its message asking for
\* a returning clause) and on a result of several rows (its message giving
\* their number), whatever argument it is given and whatever the rewriter
\* recorded; it returns no value.
C2_GetInsertedIdNeedsOneRow ==
  (inserted.called /\ Len(execResult.result.rows) # 1) =>
    /\ inserted.outcome.error = "AmbiguousOrMissingRow"
    /\ inserted.outcome.value = Undefined
    /\ inserted.outcome.detail = IF Len(execResult.result.rows) = 0
                                 THEN "append returning" ELSE "2"

\* Two rows that both hold the column asked for and recorded.
C2_Witness ==
  /\ inserted.called
  /\ inserted.arg = "id"
  /\ execResult.result.optIdCol = "id"
  /\ execResult.result.rows = <<Row1, Row3>>
  /\ inserted.outcome.error = "AmbiguousOrMissingRow"

\* The columns probed for a recorded table, in their order.
Candidates(table) ==
  IF table = "users" THEN <<"id", "users_id", "USERS_ID">>
  ELSE IF table = "Posts" THEN <<"id", "posts_id", "POSTS_ID">>
  ELSE IF table = "logs" THEN <<"id", "logs_id", "LOGS_ID">>
  ELSE <<>>

Named(name) == name # Undefined /\ name # ""

\* What the precedence of the claim gives on a single row: [error, value].
Resolved(row, arg, recorded, table) ==
  LET candidates == Candidates(table)
      found      == {i \in DOMAIN candidates : candidates[i] \in DOMAIN row}
      first      == CHOOSE i \in found : \A j \in found : i <= j
  IN  IF Named(arg)
      THEN IF arg \in DOMAIN row THEN [error |-> "none", value |-> row[arg]]
           ELSE [error |-> "UnknownColumn", value |-> Undefined]
      ELSE IF Named(recorded)
      THEN IF recorded \in DOMAIN row THEN [error |-> "none", value |-> row[recorded]]
           ELSE [error |-> "UnknownColumn", value |-> Undefined]
      ELSE IF found = {}
      THEN [error |-> "UnresolvedInsertedId", value |-> Undefined]
      ELSE [error |-> "none", value |-> row[candidates[first]]]

\* C3: on a single row the id column is the argument (one that names a
\* column), else the recorded id column, else the first of `id`,
\* `<lowercased table>_id`, `<UPPERCASED table>_ID` that the row holds, the
\* table being recorded; an argument or a recorded column the row lacks is
\* UnknownColumn, and nothing resolved is UnresolvedInsertedId.
C3_IdColumnPrecedence ==
  (inserted.called /\ Len(execResult.result.rows) = 1) =>
    LET expected == Resolved(execResult.result.rows[1], inserted.arg,
                             execResult.result.optIdCol, execResult.result.insertTable)
    IN  /\ inserted.outcome.error = expected.error
        /\ inserted.outcome.value = expected.value

\* No argument, no recorded column, table Posts, and a row whose only
\* candidate is the last one probed.
C3_Witness ==
  /\ inserted.called
  /\ inserted.arg = Undefined
  /\ execResult.result.optIdCol = Undefined
  /\ execResult.result.insertTable = "Posts"
  /\ execResult.result.rows = <<RowOf({"pid", "POSTS_ID"})>>
  /\ inserted.outcome.value = "value of POSTS_ID"

(***************************************************************************)
(* mergeParams (SpecMerge).                                                *)
(***************************************************************************)
\* arr[i] as JavaScript reads it: undefined at a hole.
Read(arr, i) == IF i \in DOMAIN arr.elems THEN arr.elems[i] ELSE Undefined

\* value is base with the positions present in override replaced.
MergedAsClaimed(base, override, value) ==
  /\ value.kind = "array"
  /\ value.len = Max(base.len, override.len)
  /\ \A i \in 0..(value.len - 1) :
       Read(value, i) = IF i \in DOMAIN override.elems THEN override.elems[i]
                        ELSE Read(base, i)

\* C6: with a side absent mergeParams returns the other as it is; an array
\* with a named mapping, in either order, is StyleMismatch; two arrays give
\* an array as long as the longer, holding the override's value at every
\* position present in the override and the base's value elsewhere.
C6_MergeParams ==
  merge.called =>
    LET params1 == merge.params1
        params2 == merge.params2
        result  == merge.result
    IN  IF params1.kind = "undefined" THEN result = [error |-> "none", value |-> params2]
        ELSE IF params2.kind = "undefined" THEN result = [error |-> "none", value |-> params1]
        ELSE IF (params1.kind = "array") # (params2.kind = "array")
             THEN result.error = "StyleMismatch"
        ELSE IF params1.kind = "array"
             THEN result.error = "none" /\ MergedAsClaimed(params1, params2, result.value)
        ELSE TRUE

\* [a, a] merged with [b] is [b, a].
C6_Witness ==
  /\ merge.called
  /\ merge.params1 = ArrayOf(<<"a", "a">>)
  /\ merge.params2 = ArrayOf(<<"b">>)
  /\ merge.result = [error |-> "none", value |-> ArrayOf(<<"b", "a">>)]

(***************************************************************************)
(* Statement identifiers (SpecPrepare).                                    *)
(***************************************************************************)
\* The number an identifier ends with.
psNumber(name) == CHOOSE n \in 0..psSequence : name = "ladc-ps-" \o ToString(n)

IdentifiersIncrease ==
  \A i, j \in DOMAIN stmts :
    i < j => psNumber(stmts[i].psName) < psNumber(stmts[j].psName)

IdentifierSent ==
  (call.op \in {"exec", "all", "cursor"} /\ call.ps # 0 /\ call.sent # <<>>) =>
    call.sent[1].name = stmts[call.ps].psName

IdentifiersKept ==
  \A i \in DOMAIN stmts : i \in DOMAIN stmts' /\ stmts'[i].psName = stmts[i].psName

\* C10: the identifiers of the statements increase strictly in creation
\* order (so no two are equal), on whatever connections they are prepared;
\* no step changes the identifier of a statement; and every query that exec,
\* all or cursor of a statement hands to the engine carries it.
C10_StatementIdentifiers ==
  [][IdentifiersIncrease' /\ IdentifierSent' /\ IdentifiersKept]_vars

\* Two statements on two connections, and the first executed after the
\* second was prepared.
C10_Witness ==
  /\ Len(stmts) = 2
  /\ stmts[1].conn # stmts[2].conn
  /\ call.op = "exec"
  /\ call.ps = 1
  /\ call.sent # <<>>
  /\ call.sent[1].name = "ladc-ps-1"
  /\ stmts[2].psName = "ladc-ps-2"

(***************************************************************************)
(* The rewriter at work in exec (Spec).                                    *)
(***************************************************************************)
\* The statements of the model that insertRegexp matches, read off the
\* pattern, and the id column that Mapping gives their table.
MappedColumn(sql) ==
  IF sql = SqlInsertUsers THEN "id"
  ELSE IF sql = SqlInsertPosts THEN "pid"
  ELSE Undefined

NotRecognized == {SqlSelect, SqlInsertSelect, SqlReturning}

\* C4: exec, on the connection or on a prepared statement, of an INSERT of
\* the recognized shape whose table autoincMapping maps to <col> hands the
\* engine the input text followed by " returning <col>"; getInsertedId()
\* with no argument on a single row that holds <col> returns the value of
\* <col> of that row.
C4_ReturningMakesInsertedId ==
  (/\ call.op = "exec"
   /\ call.sent # <<>>
   /\ options[call.conn].autoincMapping = Mapping
   /\ MappedColumn(call.sql) # Undefined) =>
    LET col == MappedColumn(call.sql)
        row == execResult.result.rows[1]
    IN  /\ call.sent[1].text = call.sql \o " returning " \o col
        /\ (/\ inserted.called
            /\ inserted.arg = Undefined
            /\ Len(execResult.result.rows) = 1
            /\ col \in DOMAIN row) =>
             (inserted.outcome.error = "none" /\ inserted.outcome.value = row[col])

\* A prepared INSERT INTO Posts executed with a call-site parameter, the
\* option useReturningAll set as well, the row holding `id` and `pid`.
C4_Witness ==
  /\ call.op = "exec"
  /\ call.ps = 1
  /\ call.sql = SqlInsertPosts
  /\ call.params = ArrayOf(<<"b">>)
  /\ options[1].autoincMapping = Mapping
  /\ options[1].useReturningAll
  /\ call.sent = <<Query("ladc-ps-1", SqlInsertPosts \o " returning pid", ArrayOf(<<"b">>))>>
  /\ execResult.result.rows = <<Row1>>
  /\ inserted.called
  /\ inserted.outcome.value = "value of pid"

\* C5: exec, on the connection or on a prepared statement, of a statement
\* that is not of the recognized shape hands the engine the input text as
\* it is, whatever the options are, and its result records neither an
\* insert table nor an id column.
C5_UnrecognizedPassesThrough ==
  (call.op = "exec" /\ call.sql \in NotRecognized) =>
    /\ \A i \in DOMAIN call.sent : call.sent[i].text = call.sql
    /\ execResult.defined =>
         /\ execResult.result.insertTable = Undefined
         /\ execResult.result.optIdCol = Undefined

\* An INSERT that ends in a returning clause already, with a mapping for its
\* table and useReturningAll set.
C5_Witness ==
  /\ call.op = "exec"
  /\ call.sql = SqlReturning
  /\ options[1].autoincMapping = Mapping
  /\ options[1].useReturningAll
  /\ call.sent # <<>>
  /\ call.sent[1].text = SqlReturning
  /\ execResult.defined

(***************************************************************************)
(* The cursor option and the parameter styles (Spec).                      *)
(***************************************************************************)
\* C7: with inMemoryCursor not set, cursor() of the connection and of a
\* prepared statement fails with FeatureDisabled, hands no query to the
\* engine and makes no cursor, whatever the statement and the parameters.
C7_CursorDisabledFailsFirst ==
  (call.op = "cursor" /\ ~options[call.conn].inMemoryCursor) =>
    /\ call.error = "FeatureDisabled"
    /\ call.sent = <<>>
    /\ ~cursor.defined

\* A statement with a named mapping bound, its cursor() called with an
\* array: parameters that cannot be merged.
C7_Witness ==
  /\ call.op = "cursor"
  /\ call.ps = 1
  /\ ~options[1].inMemoryCursor
  /\ stmts[1].boundParams.kind = "named"
  /\ call.params.kind = "array"
  /\ call.error = "FeatureDisabled"

\* The style of the parameters a call works with: those of the call on a
\* connection, the bound ones merged with those of the call on a statement.
EffectiveKind(c) ==
  LET bound == IF c.ps = 0 THEN "undefined" ELSE stmts[c.ps].boundParams.kind
      given == c.params.kind
  IN  IF bound = "undefined" THEN given
      ELSE IF given = "undefined" THEN bound
      ELSE IF bound = given THEN bound
      ELSE "mismatch"

NoNamedSent == \A i \in DOMAIN call.sent : call.sent[i].values.kind # "named"

\* Arrays and absent parameters reach the engine as they are.
PositionalSentAsGiven ==
  (call.op \in Queries /\ call.sent # <<>>) =>
    LET values == call.sent[1].values
        bound  == IF call.ps = 0 THEN UndefinedParams ELSE stmts[call.ps].boundParams
    IN  IF bound.kind = "undefined" THEN values = call.params
        ELSE IF call.params.kind = "undefined" THEN values = bound
        ELSE MergedAsClaimed(bound, call.params, values)

\* bind with a name fails and binds nothing.
BindByNameRefused ==
  (call'.op = "bind" /\ call'.key = "string n") =>
    (call'.error = "NotImplemented" /\ stmts' = stmts)

NamedRefusedByAll ==
  (call.op \in Queries /\ EffectiveKind(call) = "named") =>
    (call.error = "NotImplemented" /\ call.sent = <<>>)

NamedRefusedWhereCursorAllowed ==
  (call.op \in Queries /\ EffectiveKind(call) = "named") =>
    /\ call.sent = <<>>
    /\ call.error = IF call.op = "cursor" /\ ~options[call.conn].inMemoryCursor
                    THEN "FeatureDisabled" ELSE "NotImplemented"

\* C9 as stated: no named mapping reaches the engine; bind with a name fails
\* with NotImplemented and binds nothing; every exec, all and cursor whose
\* parameters are a named mapping fails with NotImplemented and hands the
\* engine no query; arrays and absent parameters are handed on as they are.
C9_NamedAlwaysNotImplemented ==
  [][NoNamedSent' /\ NamedRefusedByAll' /\ PositionalSentAsGiven' /\ BindByNameRefused]_vars

\* C9 amended: the same, except that cursor with inMemoryCursor not set
\* fails with FeatureDisabled, the option being tested before the
\* parameters are looked at.
C9_NamedNeverReachesEngine ==
  [][NoNamedSent' /\ NamedRefusedWhereCursorAllowed' /\ PositionalSentAsGiven'
       /\ BindByNameRefused]_vars

\* exec of a statement with a named mapping bound and no call-site
\* parameters.
C9_Witness ==
  /\ call.op = "exec"
  /\ call.ps = 1
  /\ stmts[1].boundParams.kind = "named"
  /\ call.params.kind = "undefined"
  /\ call.error = "NotImplemented"
  /\ call.sent = <<>>

(***************************************************************************)
(* The laziness of getInsertedId (SpecInsertId).                           *)
(***************************************************************************)
InsertIdErrors == {"AmbiguousOrMissingRow", "UnknownColumn", "UnresolvedInsertedId"}

\* C11: exec that the engine answers succeeds whatever rows the answer
\* holds (none, several, one with no candidate column) and gives the
\* engine's row count as affectedRows; exec itself never fails with
\* AmbiguousOrMissingRow, UnknownColumn or UnresolvedInsertedId, and as long
\* as getInsertedId is not called nothing is resolved and none of them is
\* raised.
C11_InsertIdResolutionIsLazy ==
  /\ call.error \notin InsertIdErrors
  /\ (call.op = "exec" /\ call.sent # <<>> /\ call.answer.ok) =>
       /\ call.error = "none"
       /\ execResult.defined
       /\ execResult.result.affectedRows = call.answer.rowCount
  /\ ~inserted.called => inserted.outcome = Failure("none", "")

\* exec answered with no row and a row count of 1: it succeeds, and the
\* call of getInsertedId after it is what fails.
C11_Witness ==
  /\ call.op = "exec"
  /\ call.error = "none"
  /\ call.answer = QueryResult(<<>>, 1)
  /\ execResult.result.affectedRows = 1
  /\ inserted.called
  /\ inserted.outcome.error = "AmbiguousOrMissingRow"

(***************************************************************************)
(* The text a prepared statement hands to the engine (Spec).               *)
(***************************************************************************)
\* A query of a prepared statement whose text is an INSERT of the recognized
\* shape, its table mapped to an id column.
PreparedMappedInsert ==
  /\ call.op \in Queries
  /\ call.ps # 0
  /\ call.sent # <<>>
  /\ options[call.conn].autoincMapping = Mapping
  /\ MappedColumn(call.sql) # Undefined

\* C12 as stated: exec, all and cursor of a prepared statement all hand the
\* engine the statement's text followed by the returning clause.
C12_AllThreeRewrite ==
  PreparedMappedInsert =>
    call.sent[1].text = call.sql \o " returning " \o MappedColumn(call.sql)

\* C12 amended: exec hands the engine the statement's text followed by the
\* returning clause; all and cursor hand it the statement's text as it is.
C12_OnlyExecRewrites ==
  PreparedMappedInsert =>
    call.sent[1].text = IF call.op = "exec"
                        THEN call.sql \o " returning " \o MappedColumn(call.sql)
                        ELSE call.sql

\* all() of a prepared INSERT INTO Posts, Posts mapped to pid.
C12_Witness ==
  /\ PreparedMappedInsert
  /\ call.op = "all"
  /\ call.sql = SqlInsertPosts
  /\ call.sent[1].text = SqlInsertPosts
  /\ call.error = "none"

(***************************************************************************)
(* What the rewriter appends and records (SpecInsertId).                   *)
(***************************************************************************)
\* The table of the statements of the model that are of the recognized
\* shape, read off their text.
InsertedTable(sql) ==
  IF sql = SqlInsertUsers THEN "users"
  ELSE IF sql = SqlInsertPosts THEN "Posts"
  ELSE IF sql = SqlInsertLogs THEN "logs"
  ELSE Undefined

\* The id column configured for a table, Undefined if none.
Configured(opts, table) ==
  IF opts.autoincMapping = Mapping /\ table = "users" THEN "id"
  ELSE IF opts.autoincMapping = Mapping /\ table = "Posts" THEN "pid"
  ELSE Undefined

\* exec of an INSERT of the recognized shape that reached the engine.
RecognizedExec ==
  /\ call.op = "exec"
  /\ call.sent # <<>>
  /\ execResult.defined
  /\ InsertedTable(call.sql) # Undefined

\* The text sent and what is recorded, bare being what is recorded for a
\* statement left as it is.
RewrittenAs(bare) ==
  LET table == InsertedTable(call.sql)
      col   == Configured(options[call.conn], table)
      text  == call.sent[1].text
      rec   == execResult.result
  IN  IF col # Undefined
      THEN text = call.sql \o " returning " \o col /\ rec.insertTable = table /\ rec.optIdCol = col
      ELSE IF options[call.conn].useReturningAll
      THEN text = call.sql \o " returning *" /\ rec.insertTable = table /\ rec.optIdCol = Undefined
      ELSE text = call.sql /\ rec.insertTable = bare /\ rec.optIdCol = Undefined

\* C13 as stated: a configured id column first (clause, table and column
\* recorded), else useReturningAll (clause with *, table alone recorded),
\* else the statement as it is and nothing recorded.
C13_UnmodifiedRecordsNothing == RecognizedExec => RewrittenAs(Undefined)

\* C13 amended: the same, except that the table is recorded also when the
\* statement is left as it is, so that getInsertedId() probes the columns
\* named after it.
C13_TableAlwaysRecorded ==
  /\ RecognizedExec => RewrittenAs(InsertedTable(call.sql))
  /\ (/\ RecognizedExec
      /\ call.sent[1].text = call.sql
      /\ inserted.called
      /\ inserted.arg = Undefined
      /\ execResult.result.rows = <<Row1>>) => inserted.outcome.value = "value of id"

\* A mapping that lacks the table, useReturningAll not set: the statement
\* goes out as it is, and getInsertedId() finds `id` through the table.
C13_Witness ==
  /\ RecognizedExec
  /\ call.sql = SqlInsertLogs
  /\ options[1].autoincMapping = Mapping
  /\ ~options[1].useReturningAll
  /\ call.sent[1].text = SqlInsertLogs
  /\ execResult.result.insertTable = "logs"
  /\ execResult.result.rows = <<Row1>>
  /\ inserted.called
  /\ inserted.arg = Undefined
  /\ inserted.outcome.value = "value of id"

(***************************************************************************)
(* One prepared statement over its life (SpecStatement).                   *)
(***************************************************************************)
\* The text exec of a statement hands to the engine: the text given to
\* prepare and at most one returning clause.
ExecText(sql, opts) ==
  LET table == InsertedTable(sql)
      col   == Configured(opts, table)
  IN  IF table = Undefined THEN sql
      ELSE IF col # Undefined THEN sql \o " returning " \o col
      ELSE IF opts.useReturningAll THEN sql \o " returning *"
      ELSE sql

PreparedExecSent(c) == c.op = "exec" /\ c.ps # 0 /\ c.sent # <<>>

\* C14: no step changes the text of a statement; every exec of a statement,
\* whatever bind, unbind and exec came before it, hands the engine the text
\* given to prepare followed by at most one returning clause, the same text
\* as the exec before it.
C14_RewritingNeverAccumulates ==
  [][/\ \A i \in DOMAIN stmts : i \in DOMAIN stmts' /\ stmts'[i].sql = stmts[i].sql
     /\ PreparedExecSent(call') =>
          call'.sent[1].text = ExecText(stmts[call'.ps].sql, options[call'.conn])
     /\ (PreparedExecSent(call) /\ PreparedExecSent(call') /\ call.ps = call'.ps) =>
          call'.sent[1].text = call.sent[1].text]_vars

\* The INSERT prepared, bound at position 2 and executed: one clause.
C14_Witness ==
  /\ PreparedExecSent(call)
  /\ stmts[1].sql = SqlInsertPosts
  /\ stmts[1].boundParams.len = 2
  /\ options[1].autoincMapping = Mapping
  /\ call.sent[1].text = SqlInsertPosts \o " returning pid"
  /\ call.error = "none"

\* The number of the key of a bind or unbind call.
KeyNumbers == 0..(MaxPos + 1)
HasNumberKey(c) == \E n \in KeyNumbers : c.key = "number " \o ToString(n)
KeyNumberOf(c) == CHOOSE n \in KeyNumbers : c.key = "number " \o ToString(n)

\* The slots a bound sequence of the model can have.
Slots == 0..(MaxPos + 1)

\* after is before with slot index set to value, the other slots as they
\* were (before standing for the empty sequence when nothing is bound).
SlotWritten(before, after, index, value) ==
  /\ after.kind = "array"
  /\ Read(after, index) = value
  /\ \A j \in Slots \ {index} : Read(after, j) = Read(before, j)

BindWritesSlot ==
  (/\ call'.op = "bind"
   /\ HasNumberKey(call')
   /\ stmts[call'.ps].boundParams.kind # "named") =>
    SlotWritten(stmts[call'.ps].boundParams, stmts'[call'.ps].boundParams,
                KeyNumberOf(call') - 1, call'.params.elems[0])

UnbindClearsSlot ==
  (/\ call'.op = "unbind"
   /\ HasNumberKey(call')
   /\ stmts[call'.ps].boundParams.kind # "named") =>
    IF stmts[call'.ps].boundParams.kind = "undefined"
    THEN stmts' = stmts
    ELSE SlotWritten(stmts[call'.ps].boundParams, stmts'[call'.ps].boundParams,
                     KeyNumberOf(call'), Undefined)

\* unbind right after bind(p, v): with the key p the value stays at
\* position p, with the key p - 1 it is cleared.
BindThenUnbind ==
  (/\ call.op = "bind"
   /\ HasNumberKey(call)
   /\ call'.op = "unbind"
   /\ HasNumberKey(call')
   /\ stmts[call.ps].boundParams.kind = "array") =>
    LET p     == KeyNumberOf(call)
        after == stmts'[call.ps].boundParams
    IN  /\ KeyNumberOf(call') = p => Read(after, p - 1) = call.params.elems[0]
        /\ KeyNumberOf(call') = p - 1 => Read(after, p - 1) = Undefined

\* C15: bind(position, value) sets slot position - 1 of the bound sequence
\* (an empty one when nothing is bound) and no other slot; unbind(key)
\* sets slot key, counted from 0, to undefined and no other slot, and does
\* nothing when nothing is bound; so unbind(p) after bind(p, v) leaves v
\* at position p and unbind(p - 1) clears it.
C15_BindOneBasedUnbindZeroBased ==
  [][BindWritesSlot /\ UnbindClearsSlot /\ BindThenUnbind]_vars

\* Nothing bound, bind(2, b) and then unbind(2): b is still at position 2,
\* the slot after it cleared.
C15_Witness ==
  /\ call.op = "unbind"
  /\ call.key = "number 2"
  /\ stmts[1].boundParams.len = 3
  /\ 0 \notin DOMAIN stmts[1].boundParams.elems
  /\ Read(stmts[1].boundParams, 1) = "b"
  /\ 2 \in DOMAIN stmts[1].boundParams.elems
  /\ Read(stmts[1].boundParams, 2) = Undefined

PreparedQuery(c) == c.op \in Queries /\ c.ps # 0

\* The values a query of a statement hands to the engine: the bound ones,
\* those of the call where the call gives some.
SendsBoundOverridden ==
  (PreparedQuery(call') /\ call'.sent # <<>>) =>
    LET values == call'.sent[1].values
        bound  == stmts[call'.ps].boundParams
    IN  IF call'.params.kind = "undefined" THEN values = bound
        ELSE IF bound.kind = "undefined" THEN values = call'.params
        ELSE MergedAsClaimed(bound, call'.params, values)

\* C16: exec, all and cursor of a statement leave the bound parameters as
\* they are, with or without parameters of the call, the engine answering
\* or failing; what they hand to the engine is the bound values with those
\* of the call written over them, so a call without parameters hands over
\* the bound values; only bind and unbind (and prepare, which sets the
\* first ones) change the bound parameters.
C16_BoundParamsPersist ==
  [][/\ PreparedQuery(call') => stmts' = stmts
     /\ stmts' # stmts => call'.op \in {"prepare", "bind", "unbind"}
     /\ SendsBoundOverridden]_vars

\* [a] bound, exec([b]) that the engine fails: b went out, a is still bound.
C16_Witness ==
  /\ PreparedQuery(call)
  /\ call.op = "exec"
  /\ call.params = ArrayOf(<<"b">>)
  /\ call.error = "EngineError"
  /\ call.sent[1].values = ArrayOf(<<"b">>)
  /\ stmts[1].boundParams = ArrayOf(<<"a">>)

(***************************************************************************)
(* The cursor after its end (SpecCursor).                                  *)
(***************************************************************************)
\* The cursor has dropped its rows: exhausted, returned or thrown.
CursorTerminated == cursor.defined /\ ~cursor.state.rows.defined

\* C17 as stated: on a terminated cursor next(), return() and throw() all
\* leave the cursor as it is, answer done = true with no value and raise
\* nothing.
C17_AllNoOpsAfterEnd ==
  [][CursorTerminated =>
       /\ cursor' = cursor
       /\ iter'.result = Terminated
       /\ iter'.thrown = "none"]_vars

\* C17 amended: on a terminated cursor next() and return() leave the
\* cursor as it is, answer done = true with no value and raise nothing;
\* throw(err) leaves the cursor as it is and raises err, as it does before
\* the end.
C17_NextAndReturnNoOpsAfterEnd ==
  [][CursorTerminated =>
       /\ cursor' = cursor
       /\ IF iter'.op = "throw"
          THEN iter'.thrown = iter'.err
          ELSE iter'.result = Terminated /\ iter'.thrown = "none"]_vars

\* Two rows read to the end by three calls of next(), then return(), then
\* a fourth next().
C17_Witness ==
  /\ iter.source = [defined |-> TRUE, list |-> <<Row1, Row2>>]
  /\ iter.nexts = 4
  /\ iter.closed
  /\ iter.op = "next"
  /\ iter.thrown = "none"
  /\ iter.result = Terminated
  /\ cursor.state.currentIndex = 2

(***************************************************************************)
(* Failures of the engine (Spec).                                          *)
(***************************************************************************)
\* C18: a call of exec, all, cursor or script, of the connection or of a
\* statement, hands the engine at most one query; when the engine fails
\* that query the call fails with the engine's failure, having handed over
\* that one query and made no result; and a call fails with the engine's
\* failure only when the engine failed its query.
C18_NoRetryEngineFailureAsIs ==
  /\ Len(call.sent) <= 1
  /\ (call.sent # <<>> /\ ~call.answer.ok) =>
       /\ call.error = "EngineError"
       /\ ~execResult.defined
       /\ ~cursor.defined
       /\ call.rows = <<>>
  /\ (call.sent # <<>> /\ call.answer.ok) => call.error = "none"
  /\ call.error = "EngineError" => (call.sent # <<>> /\ ~call.answer.ok)

\* cursor() of a statement, the engine failing its query.
C18_Witness ==
  /\ call.op = "cursor"
  /\ call.ps = 1
  /\ call.answer = EngineFailure
  /\ call.error = "EngineError"
  /\ Len(call.sent) = 1
  /\ ~cursor.defined

(***************************************************************************)
(* The arrays a statement shares (SpecShared).                             *)
(***************************************************************************)
\* C19: the values of a query in flight are what they were when the call
\* was issued, whatever bind and unbind did since, and the array given to
\* prepare holds what it held when it was given.
C19_ValuesAreASnapshot ==
  /\ \A k \in DOMAIN inflight : Deref(heap, inflight[k].query.values) = inflight[k].issued
  /\ \A i \in DOMAIN refs :
       refs[i].initialParams # 0 => Deref(heap, refs[i].initialParams) = refs[i].given

(***************************************************************************)
(* The session handed over by createPgConnection (SpecConnect).            *)
(***************************************************************************)
\* C20: the caller holds the client only once connect() has completed, and
\* a failed connect() has rejected createPgConnection.
C20_HandedOnlyOnceConnected ==
  /\ client.handed => client.state \in {"open", "ended"}
  /\ client.state = "failed" => (client.rejected /\ ~client.handed)

====
